---- MODULE Spec2Model ----
(***************************************************************************)
(* cliptools: a command-line clipboard utility (src/bin/main.rs).          *)
(*                                                                         *)
(* Strings are sequences of Unicode scalar values (what str::chars()       *)
(* yields), byte strings are sequences of 0..255.  A ContentType is a      *)
(* record [tag, name]; name is only meaningful for the Custom variant.     *)
(*                                                                         *)
(* Two specifications:                                                     *)
(*   SpecCodec  applies the type codec (string_to_ct, show_ct) and its     *)
(*              round trips to strings drawn from a bounded set;           *)
(*   Spec       runs whole invocations of the program (paste, list-types,  *)
(*              copy) against an in-memory clipboard.                      *)
(***************************************************************************)
EXTENDS Integers, Sequences, FiniteSets, TLC

VARIABLES codec, board, req, res

vars == <<codec, board, req, res>>

(***************************************************************************)
(* Bounds of the model.                                                    *)
(***************************************************************************)
\* longest string over CodecChars given to the codec
MaxLen == 3
\* most flavours another application puts on the clipboard
MaxFlavours == 2
\* most members of the JSON object given to copy --json
MaxMembers == 2

(***************************************************************************)
(* Strings.                                                                *)
(***************************************************************************)
\* '@', the prefix of a native type name (main.rs:202, main.rs:227)
AT == 64

S_url  == <<117, 114, 108>>
S_html == <<104, 116, 109, 108>>
S_pdf  == <<112, 100, 102>>
S_png  == <<112, 110, 103>>
S_rtf  == <<114, 116, 102>>
S_text == <<116, 101, 120, 116>>

\* u8::to_ascii_lowercase applied to every char: only 'A'..'Z' change
to_ascii_lowercase(s) ==
    [i \in 1..Len(s) |-> IF s[i] \in 65..90 THEN s[i] + 32 ELSE s[i]]

\* str::starts_with('@')
starts_with_at(s) == Len(s) > 0 /\ s[1] = AT

\* s.chars().skip(1).collect()
skip1(s) == [i \in 1..(Len(s) - 1) |-> s[i + 1]]

(***************************************************************************)
(* ContentType (arboard) and Option<ContentType>.                          *)
(***************************************************************************)
Url  == [tag |-> "Url",  name |-> <<>>]
Html == [tag |-> "Html", name |-> <<>>]
Pdf  == [tag |-> "Pdf",  name |-> <<>>]
Png  == [tag |-> "Png",  name |-> <<>>]
Rtf  == [tag |-> "Rtf",  name |-> <<>>]
Text == [tag |-> "Text", name |-> <<>>]
Custom(n) == [tag |-> "Custom", name |-> n]
NoneCt == [tag |-> "None", name |-> <<>>]

WellKnown == {Url, Html, Pdf, Png, Rtf, Text}

(***************************************************************************)
(* The type codec.                                                         *)
(***************************************************************************)
\* a slip: the native name is taken from the lower-cased string
string_to_ct_lowercased_custom(s) ==
    LET l == to_ascii_lowercase(s) IN
    CASE l = S_url  -> Url
      [] l = S_html -> Html
      [] l = S_pdf  -> Pdf
      [] l = S_png  -> Png
      [] l = S_rtf  -> Rtf
      [] l = S_text -> Text
      [] OTHER -> IF starts_with_at(l) THEN Custom(skip1(l)) ELSE NoneCt

\* a slip: the well-known names are matched as written, not lower-cased
string_to_ct_case_sensitive(s) ==
    CASE s = S_url  -> Url
      [] s = S_html -> Html
      [] s = S_pdf  -> Pdf
      [] s = S_png  -> Png
      [] s = S_rtf  -> Rtf
      [] s = S_text -> Text
      [] OTHER -> IF starts_with_at(s) THEN Custom(skip1(s)) ELSE NoneCt

string_to_ct(s) ==
    LET l == to_ascii_lowercase(s) IN
    CASE l = S_url  -> Url
      [] l = S_html -> Html
      [] l = S_pdf  -> Pdf
      [] l = S_png  -> Png
      [] l = S_rtf  -> Rtf
      [] l = S_text -> Text
      [] OTHER -> IF starts_with_at(s) THEN Custom(skip1(s)) ELSE NoneCt

show_ct(ct) ==
    CASE ct.tag = "Text" -> S_text
      [] ct.tag = "Html" -> S_html
      [] ct.tag = "Pdf"  -> S_pdf
      [] ct.tag = "Png"  -> S_png
      [] ct.tag = "Rtf"  -> S_rtf
      [] ct.tag = "Url"  -> S_url
      [] ct.tag = "Custom" -> <<AT>> \o ct.name

(***************************************************************************)
(* Inputs of the codec specification.                                      *)
(***************************************************************************)
\* '@', 'u', 'U', 'r', 'R', 'l', 'L'
CodecChars == {AT, 117, 85, 114, 82, 108, 76}

StringsUpTo(n) == UNION {[1..k -> CodecChars] : k \in 0..n}

\* names of the documentation and of the tests of the codec: the well-known
\* names in several letter cases, "bogus", "@foo.bar", "@text", "@TEXT",
\* "@Html", "foo", "@e-acute", "text " and "url@"
NamedStrings ==
    { S_url, S_html, S_pdf, S_png, S_rtf, S_text,
      <<85, 82, 76>>, <<72, 116, 109, 108>>, <<84, 69, 88, 84>>,
      <<80, 100, 70>>, <<112, 78, 103>>, <<82, 84, 70>>,
      <<98, 111, 103, 117, 115>>,
      <<64, 102, 111, 111, 46, 98, 97, 114>>,
      <<64, 116, 101, 120, 116>>, <<64, 84, 69, 88, 84>>,
      <<64, 72, 116, 109, 108>>,
      <<102, 111, 111>>, <<64, 233>>,
      <<116, 101, 120, 116, 32>>, <<117, 114, 108, 64>> }

CodecStrings == StringsUpTo(MaxLen) \cup NamedStrings

CodecTypes == WellKnown \cup {Custom(n) : n \in CodecStrings}

CodecIdle ==
    [op |-> "idle", s |-> <<>>, ct |-> NoneCt, str |-> <<>>, back |-> NoneCt]

(***************************************************************************)
(* Byte strings.                                                           *)
(***************************************************************************)
\* a UTF-8 continuation byte
IsCont(b) == b \in 128..191

\* str::from_utf8(val).is_ok(): val, read from position i on, is well-formed
\* UTF-8 (no overlong forms, no surrogates, nothing above U+10FFFF)
RECURSIVE Utf8From(_, _)
Utf8From(val, i) ==
    LET n == Len(val)
        b == val[i]
        c(k) == i + k <= n /\ IsCont(val[i + k])
    IN
    IF i > n THEN TRUE
    ELSE IF b < 128 THEN Utf8From(val, i + 1)
    ELSE IF b \in 194..223 THEN c(1) /\ Utf8From(val, i + 2)
    ELSE IF b = 224 THEN
        i + 1 <= n /\ val[i + 1] \in 160..191 /\ c(2) /\ Utf8From(val, i + 3)
    ELSE IF b \in (225..236) \cup {238, 239} THEN
        c(1) /\ c(2) /\ Utf8From(val, i + 3)
    ELSE IF b = 237 THEN
        i + 1 <= n /\ val[i + 1] \in 128..159 /\ c(2) /\ Utf8From(val, i + 3)
    ELSE IF b = 240 THEN
        i + 1 <= n /\ val[i + 1] \in 144..191 /\ c(2) /\ c(3) /\ Utf8From(val, i + 4)
    ELSE IF b \in 241..243 THEN
        c(1) /\ c(2) /\ c(3) /\ Utf8From(val, i + 4)
    ELSE IF b = 244 THEN
        i + 1 <= n /\ val[i + 1] \in 128..143 /\ c(2) /\ c(3) /\ Utf8From(val, i + 4)
    ELSE FALSE

from_utf8_ok(val) == Utf8From(val, 1)

\* the UTF-8 encoding of one char
EncodeChar(c) ==
    IF c < 128 THEN <<c>>
    ELSE IF c < 2048 THEN <<192 + (c \div 64), 128 + (c % 64)>>
    ELSE IF c < 65536 THEN
        <<224 + (c \div 4096), 128 + ((c \div 64) % 64), 128 + (c % 64)>>
    ELSE <<240 + (c \div 262144), 128 + ((c \div 4096) % 64),
           128 + ((c \div 64) % 64), 128 + (c % 64)>>

\* val.bytes().collect(): the bytes of a string are its UTF-8 encoding
RECURSIVE str_bytes(_)
str_bytes(s) ==
    IF s = <<>> THEN <<>> ELSE EncodeChar(Head(s)) \o str_bytes(Tail(s))

\* the line-buffered standard output writes through when the data holds '\n'
HasNewline(val) == \E i \in 1..Len(val) : val[i] = 10

(***************************************************************************)
(* Vec<String>::sort and Vec::dedup, as list uses them.                    *)
(***************************************************************************)
\* the order of String: lexicographic by bytes (here: by char, the same order)
RECURSIVE StrLess(_, _)
StrLess(a, b) ==
    IF a = <<>> THEN b # <<>>
    ELSE IF b = <<>> THEN FALSE
    ELSE IF Head(a) # Head(b) THEN Head(a) < Head(b)
    ELSE StrLess(Tail(a), Tail(b))

\* x put into the sorted list v, after the elements not greater than it
RECURSIVE InsertSorted(_, _)
InsertSorted(x, v) ==
    IF v = <<>> THEN <<x>>
    ELSE IF StrLess(x, Head(v)) THEN <<x>> \o v
    ELSE <<Head(v)>> \o InsertSorted(x, Tail(v))

RECURSIVE SortFrom(_, _)
SortFrom(v, acc) ==
    IF v = <<>> THEN acc ELSE SortFrom(Tail(v), InsertSorted(Head(v), acc))

\* a slip: the list is left in the order the clipboard reports
sort_skipped(v) == v

\* converted.sort()
sort(v) == SortFrom(v, <<>>)

\* converted.dedup(): removes consecutive repeated elements
RECURSIVE dedup(_)
dedup(v) ==
    IF Len(v) < 2 THEN v
    ELSE IF v[1] = v[2] THEN dedup(Tail(v))
    ELSE <<v[1]>> \o dedup(Tail(v))

(***************************************************************************)
(* The clipboard (arboard::Clipboard), as an in-memory collaborator: a     *)
(* sequence of flavours [native, data].                                    *)
(***************************************************************************)
\* native type names: "utf8" and "str" are plain-text flavours
N_utf8 == <<117, 116, 102, 56>>
N_str  == <<115, 116, 114>>
N_url  == <<85, 82, 76>>
N_html == <<72, 84, 77, 76>>
N_pdf  == <<80, 68, 70>>
N_png  == <<80, 78, 71>>
N_rtf  == <<82, 84, 70>>
\* "x", a type outside the portable vocabulary
N_x    == <<120>>

\* Clipboard::normalize_content_type
normalize_content_type(n) ==
    CASE n \in {N_utf8, N_str} -> Text
      [] n = N_url  -> Url
      [] n = N_html -> Html
      [] n = N_pdf  -> Pdf
      [] n = N_png  -> Png
      [] n = N_rtf  -> Rtf
      [] OTHER -> Custom(n)

\* the native name set_content_types stores a ContentType under
NativeOf(ct) ==
    CASE ct = Text -> N_utf8
      [] ct = Url  -> N_url
      [] ct = Html -> N_html
      [] ct = Pdf  -> N_pdf
      [] ct = Png  -> N_png
      [] ct = Rtf  -> N_rtf
      [] OTHER -> ct.name

Matches(f, ct) ==
    IF ct.tag = "Custom" THEN f.native = ct.name
    ELSE normalize_content_type(f.native) = ct

\* Clipboard::get_content_for_type: the first flavour of that type
get_content_for_type(b, ct, fault) ==
    LET hits == {i \in 1..Len(b) : Matches(b[i], ct)} IN
    IF fault = "clipboard" \/ hits = {} THEN [ok |-> FALSE, val |-> <<>>]
    ELSE [ok |-> TRUE, val |-> b[CHOOSE i \in hits : \A j \in hits : i <= j].data]

\* Clipboard::get_text: the text flavour, when it is a string
get_text(b, fault) ==
    LET r == get_content_for_type(b, Text, fault) IN
    IF r.ok /\ from_utf8_ok(r.val) THEN r ELSE [ok |-> FALSE, val |-> <<>>]

\* Clipboard::get_content_types: the native names, in clipboard order
get_content_types(b, fault) ==
    IF fault = "clipboard" THEN [ok |-> FALSE, types |-> <<>>]
    ELSE [ok |-> TRUE, types |-> [i \in 1..Len(b) |-> b[i].native]]

\* the flavours of a payload (a set of [ct, data] with distinct ct), ordered by
\* native name
RECURSIVE FlavoursOf(_)
FlavoursOf(map) ==
    IF map = {} THEN <<>>
    ELSE LET e == CHOOSE x \in map :
                    \A y \in map : y = x \/ StrLess(NativeOf(x.ct), NativeOf(y.ct))
         IN <<[native |-> NativeOf(e.ct), data |-> e.data]>> \o FlavoursOf(map \ {e})

\* Clipboard::set_content_types: replaces the whole content, or fails and
\* leaves it as it was
set_content_types(b, map, fault) ==
    IF fault = "clipboard" THEN [ok |-> FALSE, board |-> b]
    ELSE [ok |-> TRUE, board |-> FlavoursOf(map)]

(***************************************************************************)
(* The program: main and the three subcommands.                            *)
(*                                                                         *)
(* A request is what clap hands over together with the environment of the  *)
(* run: is standard output a terminal, what standard input holds, and      *)
(* which device, if any, fails (fault).  A handler returns [kind, out,     *)
(* lines, log, board]: the error kind or "Ok", the bytes (paste) or lines  *)
(* (list-types) that reached standard output, the calls made to the        *)
(* clipboard and to standard input, and the clipboard it leaves.           *)
(***************************************************************************)
NoArg == [some |-> FALSE, v |-> <<>>]
Arg(s) == [some |-> TRUE, v |-> s]

NoDoc == [kind |-> "none", members |-> <<>>]

Call(op, ct, map) == [op |-> op, ct |-> ct, map |-> map]

Outcome(kind, out, lines, log, b) ==
    [kind |-> kind, out |-> out, lines |-> lines, log |-> log, board |-> b]

CliptoolsErrors ==
    {"DataNotFound", "InternalError", "ArgumentError", "JsonError", "Utf8Error"}

\* CliptoolsError::exit_code
exit_code(kind) ==
    CASE kind = "DataNotFound"  -> 1
      [] kind = "InternalError" -> 1
      [] kind = "ArgumentError" -> 2
      [] kind = "JsonError"     -> 2
      [] kind = "Utf8Error"     -> 2

\* the exit status of a Rust process that panics
PanicExit == 101

\* main, after the handler returned o: an error that is no CliptoolsError
\* ("IoError") makes the downcast fail and main panic; a panic inside the
\* handler ("Panic") ends the process the same way
main(o) ==
    [kind |-> o.kind,
     exit |-> IF o.kind = "Ok" THEN 0
              ELSE IF o.kind \in CliptoolsErrors THEN exit_code(o.kind)
              ELSE PanicExit,
     out |-> o.out, lines |-> o.lines, log |-> o.log]

\* matches.value_of("binary"): no value when the flag is absent or bare
binary_value(binary) ==
    IF binary \in {"absent", "novalue"} THEN "None" ELSE binary

\* a slip: auto allows binary output on a terminal
binary_allowed_reversed(binary, tty) ==
    CASE binary_value(binary) = "auto" -> tty
      [] binary_value(binary) \in {"None", "always"} -> TRUE
      [] binary_value(binary) = "never" -> FALSE

\* paste: let binary_allowed = ...
binary_allowed(binary, tty) ==
    CASE binary_value(binary) = "auto" -> ~tty
      [] binary_value(binary) \in {"None", "always"} -> TRUE
      [] binary_value(binary) = "never" -> FALSE

\* stdout.write_all / print!: data holding a newline is written through, and
\* the write fails on a failing device; other data stays in the buffer
stdout_write_ok(val, fault) == ~(fault = "stdout" /\ HasNewline(val))

\* stdout.flush: fails when buffered data cannot be written
stdout_flush_ok(val, fault) == ~(fault = "stdout" /\ val # <<>>)

\* show_binary_content: "Utf8Error", "Panic" (the expect on write_all) or "Ok"
show_binary_content(val, allowed, fault) ==
    IF ~allowed /\ ~from_utf8_ok(val) THEN "Utf8Error"
    ELSE IF ~stdout_write_ok(val, fault) THEN "Panic"
    ELSE "Ok"

\* a slip: --system-type goes through the codec like --type
paste_ct_system_through_codec(r) ==
    IF r.typeName.some THEN
        [err |-> string_to_ct(r.typeName.v) = NoneCt, ct |-> string_to_ct(r.typeName.v)]
    ELSE IF r.systemType.some THEN
        [err |-> FALSE,
         ct |-> IF string_to_ct(r.systemType.v) = NoneCt THEN Custom(r.systemType.v)
                ELSE string_to_ct(r.systemType.v)]
    ELSE [err |-> FALSE, ct |-> NoneCt]

\* paste: let ct = ...; err when --type is not recognized, ct = NoneCt when
\* neither --type nor --system-type is given
paste_ct(r) ==
    IF r.typeName.some THEN
        [err |-> string_to_ct(r.typeName.v) = NoneCt, ct |-> string_to_ct(r.typeName.v)]
    ELSE IF r.systemType.some THEN [err |-> FALSE, ct |-> Custom(r.systemType.v)]
    ELSE [err |-> FALSE, ct |-> NoneCt]

\* the end of paste: flush of standard output
paste_flush(val, log, b, fault) ==
    IF stdout_flush_ok(val, fault) THEN Outcome("Ok", val, <<>>, log, b)
    ELSE Outcome("IoError", <<>>, <<>>, log, b)

paste(b, r) ==
    LET allowed == binary_allowed(r.binary, r.tty)
        t == paste_ct(r)
    IN
    IF t.err THEN Outcome("ArgumentError", <<>>, <<>>, <<>>, b)
    ELSE IF t.ct # NoneCt THEN
        LET got == get_content_for_type(b, t.ct, r.fault)
            log == <<Call("get_content_for_type", t.ct, {})>>
            shown == show_binary_content(got.val, allowed, r.fault)
        IN
        IF ~got.ok THEN Outcome("DataNotFound", <<>>, <<>>, log, b)
        ELSE IF shown # "Ok" THEN Outcome(shown, <<>>, <<>>, log, b)
        ELSE paste_flush(got.val, log, b, r.fault)
    ELSE
        LET got == get_text(b, r.fault)
            log == <<Call("get_text", NoneCt, {})>>
        IN
        IF ~got.ok THEN Outcome("DataNotFound", <<>>, <<>>, log, b)
        ELSE IF ~stdout_write_ok(got.val, r.fault) THEN
            Outcome("Panic", <<>>, <<>>, log, b)
        ELSE paste_flush(got.val, log, b, r.fault)

\* list: the lines printed without --system
list_converted(types) ==
    dedup(sort([i \in 1..Len(types) |-> show_ct(normalize_content_type(types[i]))]))

\* list: println! panics when a line cannot be written
list(b, r) ==
    LET got == get_content_types(b, r.fault)
        log == <<Call("get_content_types", NoneCt, {})>>
        lines == IF r.system THEN got.types ELSE list_converted(got.types)
    IN
    IF ~got.ok THEN Outcome("DataNotFound", <<>>, <<>>, log, b)
    ELSE IF r.fault = "stdout" /\ lines # <<>> THEN Outcome("Panic", <<>>, <<>>, log, b)
    ELSE Outcome("Ok", <<>>, lines, log, b)

(***************************************************************************)
(* copy.                                                                   *)
(***************************************************************************)
\* serde_json::from_reader into a Value: an object keeps one value per key,
\* the last one given
json_object(members) ==
    {members[i] : i \in {k \in 1..Len(members) :
                            \A j \in (k + 1)..Len(members) : members[j].key # members[k].key}}

\* HashMap insert: the entry of an equal key is replaced
insert(map, ct, data) ==
    {e \in map : e.ct # ct} \cup {[ct |-> ct, data |-> data]}

\* a slip: an entry with a non-string value is skipped
RECURSIVE collect_skipping(_, _)
collect_skipping(entries, map) ==
    IF entries = <<>> THEN [kind |-> "Ok", map |-> map]
    ELSE LET e == Head(entries)
             ct == string_to_ct(e.key)
         IN
         IF ct = NoneCt THEN [kind |-> "ArgumentError", map |-> {}]
         ELSE IF ~e.val.str THEN collect_skipping(Tail(entries), map)
         ELSE collect_skipping(Tail(entries), insert(map, ct, str_bytes(e.val.s)))

\* a slip: only the first entry is taken
collect_first_only(entries, map) ==
    IF entries = <<>> THEN [kind |-> "Ok", map |-> map]
    ELSE LET e == Head(entries)
             ct == string_to_ct(e.key)
         IN
         IF ct = NoneCt THEN [kind |-> "ArgumentError", map |-> {}]
         ELSE IF ~e.val.str THEN [kind |-> "JsonError", map |-> {}]
         ELSE [kind |-> "Ok", map |-> insert(map, ct, str_bytes(e.val.s))]

\* copy: map.iter().map(...).collect::<Result<HashMap<_, _>>>(): the entries
\* in iteration order, stopping at the first error
RECURSIVE collect(_, _)
collect(entries, map) ==
    IF entries = <<>> THEN [kind |-> "Ok", map |-> map]
    ELSE LET e == Head(entries)
             ct == string_to_ct(e.key)
         IN
         IF ct = NoneCt THEN [kind |-> "ArgumentError", map |-> {}]
         ELSE IF ~e.val.str THEN [kind |-> "JsonError", map |-> {}]
         ELSE collect(Tail(entries), insert(map, ct, str_bytes(e.val.s)))

\* a slip: --system-type wins over --type, and --type is not checked
copy_target_system_first(r) ==
    IF r.systemType.some THEN [err |-> FALSE, ct |-> Custom(r.systemType.v)]
    ELSE IF r.typeName.some THEN
        [err |-> FALSE,
         ct |-> IF string_to_ct(r.typeName.v) = NoneCt THEN Custom(r.typeName.v)
                ELSE string_to_ct(r.typeName.v)]
    ELSE [err |-> FALSE, ct |-> Text]

\* copy, single-type mode: let ct = ...
copy_target(r) ==
    IF r.typeName.some THEN
        [err |-> string_to_ct(r.typeName.v) = NoneCt, ct |-> string_to_ct(r.typeName.v)]
    ELSE IF r.systemType.some THEN [err |-> FALSE, ct |-> Custom(r.systemType.v)]
    ELSE [err |-> FALSE, ct |-> Text]

\* copy: board.set_content_types(map), the last step of both modes
copy_set(b, map, log, fault) ==
    LET done == set_content_types(b, map, fault)
        log2 == Append(log, Call("set_content_types", NoneCt, map))
    IN
    IF done.ok THEN Outcome("Ok", <<>>, <<>>, log2, done.board)
    ELSE Outcome("InternalError", <<>>, <<>>, log2, b)

\* copy; order is the order in which the JSON object yields its entries
copy(b, r, order) ==
    LET stdin == <<Call("read_stdin", NoneCt, {})>> IN
    IF r.json THEN
        IF r.fault = "stdin" \/ r.doc.kind = "malformed" THEN
            Outcome("JsonError", <<>>, <<>>, stdin, b)
        ELSE IF r.doc.kind # "object" THEN
            Outcome("JsonError", <<>>, <<>>, stdin, b)
        ELSE
            LET c == collect(order, {}) IN
            IF c.kind # "Ok" THEN Outcome(c.kind, <<>>, <<>>, stdin, b)
            ELSE copy_set(b, c.map, stdin, r.fault)
    ELSE
        LET t == copy_target(r) IN
        IF t.err THEN Outcome("ArgumentError", <<>>, <<>>, <<>>, b)
        ELSE IF r.fault = "stdin" THEN Outcome("InternalError", <<>>, <<>>, stdin, b)
        ELSE copy_set(b, {[ct |-> t.ct, data |-> r.stdin]}, stdin, r.fault)

(***************************************************************************)
(* Inputs of Spec.                                                         *)
(***************************************************************************)
\* "a", a byte that is no UTF-8, "a\n"
D_a    == <<97>>
D_bin  == <<255>>
D_line == <<97, 10>>

\* what other applications put on the clipboard: text under either plain-text
\* flavour, bytes that are no text under "x" and under a plain-text flavour
Flavours ==
    {[native |-> N_utf8, data |-> D_a], [native |-> N_str, data |-> D_a],
     [native |-> N_x, data |-> D_bin], [native |-> N_utf8, data |-> D_bin]}

Boards == UNION {[1..k -> Flavours] : k \in 0..MaxFlavours}

\* "bogus", "TEXT", "@x", "@text"
T_bogus  == <<98, 111, 103, 117, 115>>
T_TEXT   == <<84, 69, 88, 84>>
T_at_x   == <<64, 120>>

TypeArgs == {Arg(S_text), Arg(T_TEXT), Arg(T_at_x), Arg(T_bogus), Arg(<<>>)}
SystemTypeArgs == {Arg(N_x), Arg(S_text), Arg(N_str)}

\* --type and --system-type exclude each other (the ArgGroup "format")
FormatArgs ==
    {[typeName |-> a, systemType |-> NoArg] : a \in TypeArgs \cup {NoArg}}
    \cup {[typeName |-> NoArg, systemType |-> a] : a \in SystemTypeArgs}

Request(cmd, f, binary, tty, system, json, stdin, doc, fault) ==
    [cmd |-> cmd, typeName |-> f.typeName, systemType |-> f.systemType,
     binary |-> binary, tty |-> tty, system |-> system, json |-> json,
     stdin |-> stdin, doc |-> doc, fault |-> fault]

NoFormat == [typeName |-> NoArg, systemType |-> NoArg]

NoRequest ==
    Request("none", NoFormat, "absent", FALSE, FALSE, FALSE, <<>>, NoDoc, "none")

NoResult == [kind |-> "none", exit |-> 0, out |-> <<>>, lines |-> <<>>, log |-> <<>>]

PasteRequests ==
    {Request("paste", f, bin, tty, FALSE, FALSE, <<>>, NoDoc, fault) :
        f \in FormatArgs,
        bin \in {"absent", "novalue", "auto", "always", "never"},
        tty \in BOOLEAN,
        fault \in {"none", "stdout", "clipboard"}}

ListRequests ==
    {Request("list-types", NoFormat, "absent", tty, system, FALSE, <<>>, NoDoc, fault) :
        tty \in BOOLEAN, system \in BOOLEAN, fault \in {"none", "stdout", "clipboard"}}

CopySingleRequests ==
    {Request("copy", f, "absent", FALSE, FALSE, FALSE, stdin, NoDoc, fault) :
        f \in FormatArgs,
        stdin \in {<<>>, <<97, 98, 99>>, D_bin, D_line},
        fault \in {"none", "stdin", "clipboard"}}

\* JSON values: the string "e-acute" (two bytes in UTF-8) and a number
JsonValues == {[str |-> TRUE, s |-> <<233>>], [str |-> FALSE, s |-> <<>>]}
JsonKeys == {S_text, T_TEXT, T_at_x, T_bogus}
\* each key with each value, and "text": "a"
JsonMembers ==
    [key : JsonKeys, val : JsonValues]
    \cup {[key |-> S_text, val |-> [str |-> TRUE, s |-> D_a]]}

JsonDocs ==
    {[kind |-> "malformed", members |-> <<>>], [kind |-> "array", members |-> <<>>]}
    \cup {[kind |-> "object", members |-> m] :
             m \in UNION {[1..k -> JsonMembers] : k \in 0..MaxMembers}}

CopyJsonRequests ==
    {Request("copy", NoFormat, "absent", FALSE, FALSE, TRUE, <<>>, doc, fault) :
        doc \in JsonDocs, fault \in {"none", "stdin", "clipboard"}}

\* the orders in which the entries of a parsed object can be iterated: by key
\* (serde_json's default map) or by insertion (its preserve_order feature);
\* every order is allowed here
IterationOrders(doc) ==
    LET obj == json_object(doc.members)
        n == Cardinality(obj)
    IN {f \in [1..n -> obj] : \A i, j \in 1..n : i # j => f[i] # f[j]}

(***************************************************************************)
(* Spec: invocations of the program, one after the other, on a clipboard   *)
(* that other applications write too.                                      *)
(***************************************************************************)
Init ==
    /\ codec = CodecIdle
    /\ board = <<>>
    /\ req = NoRequest
    /\ res = NoResult

Idle == req.cmd = "none"

\* another application replaces the content of the clipboard
OtherApp ==
    /\ Idle
    /\ \E b \in Boards : board' = b
    /\ UNCHANGED <<codec, req, res>>

Paste ==
    /\ Idle
    /\ \E r \in PasteRequests :
          /\ req' = r
          /\ res' = main(paste(board, r))
    /\ UNCHANGED <<codec, board>>

List ==
    /\ Idle
    /\ \E r \in ListRequests :
          /\ req' = r
          /\ res' = main(list(board, r))
    /\ UNCHANGED <<codec, board>>

Copy ==
    /\ Idle
    /\ \E r \in CopySingleRequests \cup CopyJsonRequests :
          \E order \in IterationOrders(r.doc) :
             LET o == copy(board, r, order) IN
             /\ req' = r
             /\ res' = main(o)
             /\ board' = o.board
    /\ UNCHANGED codec

\* the process has exited; the next invocation starts afresh
Exit ==
    /\ ~Idle
    /\ req' = NoRequest
    /\ res' = NoResult
    /\ UNCHANGED <<codec, board>>

Next == OtherApp \/ Paste \/ List \/ Copy \/ Exit

Spec == Init /\ [][Next]_vars

(***************************************************************************)
(* SpecCodec: the codec applied to bounded inputs.                         *)
(***************************************************************************)
InitCodec ==
    /\ codec = CodecIdle
    /\ board = <<>>
    /\ req = NoRequest
    /\ res = NoResult

\* parse(s)
Parse(s) ==
    /\ codec.op = "idle"
    /\ codec' = [CodecIdle EXCEPT !.op = "parse", !.s = s, !.ct = string_to_ct(s)]
    /\ UNCHANGED <<board, req, res>>

\* render(parse(s)), for an s that parse accepted
RenderParsed ==
    /\ codec.op = "parse"
    /\ codec.ct # NoneCt
    /\ codec' = [codec EXCEPT !.op = "parse_render", !.str = show_ct(codec.ct)]
    /\ UNCHANGED <<board, req, res>>

\* render(ct)
Render(ct) ==
    /\ codec.op = "idle"
    /\ codec' = [CodecIdle EXCEPT !.op = "render", !.ct = ct, !.str = show_ct(ct)]
    /\ UNCHANGED <<board, req, res>>

\* parse(render(ct))
ParseRendered ==
    /\ codec.op = "render"
    /\ codec' = [codec EXCEPT !.op = "render_parse", !.back = string_to_ct(codec.str)]
    /\ UNCHANGED <<board, req, res>>

NextCodec ==
    \/ \E s \in CodecStrings : Parse(s)
    \/ RenderParsed
    \/ \E ct \in CodecTypes : Render(ct)
    \/ ParseRendered

SpecCodec == InitCodec /\ [][NextCodec]_vars

(***************************************************************************)
(* Claims about the codec (properties of SpecCodec).                        *)
(***************************************************************************)
\* s and t are equal up to the case of ASCII letters
EqIgnoreAsciiCase(s, t) ==
    /\ Len(s) = Len(t)
    /\ \A i \in 1..Len(s) :
          \/ s[i] = t[i]
          \/ s[i] \in 65..90 /\ t[i] = s[i] + 32
          \/ s[i] \in 97..122 /\ t[i] = s[i] - 32

WellKnownNames == {S_url, S_html, S_pdf, S_png, S_rtf, S_text}

NamedBy(n) ==
    CASE n = S_url  -> Url
      [] n = S_html -> Html
      [] n = S_pdf  -> Pdf
      [] n = S_png  -> Png
      [] n = S_rtf  -> Rtf
      [] n = S_text -> Text

\* C1: round-trip law of the codec.  parse(render(ct)) = ct for every
\* ContentType, Custom("") and Custom of a well-known name included; and for
\* every s that parse accepts, render(parse(s)) is s, or the well-known name
\* that s is a letter-case variant of.
C1_RoundTrip ==
    /\ codec.op = "render_parse" => codec.back = codec.ct
    /\ codec.op = "parse_render" =>
          IF \E n \in WellKnownNames : EqIgnoreAsciiCase(codec.s, n)
          THEN codec.str \in WellKnownNames /\ EqIgnoreAsciiCase(codec.s, codec.str)
          ELSE codec.str = codec.s

\* C1 witness: both round trips taken on the hard cases: Custom("url") and
\* Custom("") rendered and parsed back, "URL" and "@U" parsed and rendered.
C1_Witness_CustomWellKnown ==
    codec.op = "render_parse" /\ codec.ct = Custom(S_url) /\ codec.back = Custom(S_url)

\* C2: resolution order of parse.  A case-insensitive match of the whole name
\* against a well-known name gives that variant; otherwise a leading '@' gives
\* Custom of the remainder, verbatim; every other name is not recognized.
C2_ResolutionOrder ==
    codec.op = "parse" =>
        LET s == codec.s IN
        IF \E n \in WellKnownNames : EqIgnoreAsciiCase(s, n)
        THEN \E n \in WellKnownNames :
                 EqIgnoreAsciiCase(s, n) /\ codec.ct = NamedBy(n)
        ELSE IF Len(s) > 0 /\ s[1] = 64
        THEN /\ codec.ct.tag = "Custom"
             /\ Len(codec.ct.name) = Len(s) - 1
             /\ \A i \in 1..(Len(s) - 1) : codec.ct.name[i] = s[i + 1]
        ELSE codec.ct = NoneCt

\* C2 witness: '@' alone parsed to Custom("")
C2_Witness_AtAlone ==
    codec.op = "parse" /\ codec.s = <<64>> /\ codec.ct = Custom(<<>>)

(***************************************************************************)
(* Claims about the subcommands (properties of Spec).                        *)
(***************************************************************************)
\* a type name the codec accepts
Recognized(s) ==
    \/ \E n \in WellKnownNames : EqIgnoreAsciiCase(s, n)
    \/ Len(s) > 0 /\ s[1] = 64

SetCalls == {i \in 1..Len(res.log) : res.log[i].op = "set_content_types"}

ClipboardReads ==
    {i \in 1..Len(res.log) :
        res.log[i].op \in {"get_text", "get_content_for_type", "get_content_types"}}

\* paste read an explicit type and the clipboard holds val under it
ExplicitRead ==
    /\ req.cmd = "paste"
    /\ req.typeName.some \/ req.systemType.some
    /\ Len(res.log) = 1
    /\ res.log[1].op = "get_content_for_type"

Held == get_content_for_type(board, res.log[1].ct, req.fault)

BinaryRead == ExplicitRead /\ Held.ok /\ ~from_utf8_ok(Held.val)

\* C3: paste binary safety.  On an explicit-type read of bytes that are not
\* UTF-8: --binary never, or auto on a terminal, fails with Utf8Error and
\* writes nothing; --binary always, or auto off a terminal, never fails with
\* Utf8Error and, standard output accepting the bytes, succeeds having
\* written exactly the clipboard bytes.
C3_BinarySafety ==
    BinaryRead =>
        /\ (req.binary = "never" \/ (req.binary = "auto" /\ req.tty)) =>
              res.kind = "Utf8Error" /\ res.exit = 2 /\ res.out = <<>>
        /\ (req.binary = "always" \/ (req.binary = "auto" /\ ~req.tty)) =>
              /\ res.kind # "Utf8Error"
              /\ req.fault # "stdout" =>
                    res.kind = "Ok" /\ res.exit = 0 /\ res.out = Held.val

\* C3 witness: --binary auto, output redirected, the raw bytes written
C3_Witness_AutoRedirected ==
    /\ BinaryRead /\ req.binary = "auto" /\ ~req.tty
    /\ res.kind = "Ok" /\ res.out = D_bin

\* C4: default binary policy.  Without a value for --binary and with
\* standard output a terminal (and working), an explicit-type read of bytes
\* that are not UTF-8 fails with Utf8Error and writes nothing.
C4_DefaultDisallowsOnTerminal ==
    (BinaryRead /\ req.binary \in {"absent", "novalue"} /\ req.tty /\ req.fault = "none")
        => res.kind = "Utf8Error" /\ res.out = <<>>

\* copy --json was given an object whose keys are all recognized and whose
\* values are all strings, and standard input could be read
GoodObject ==
    /\ req.cmd = "copy" /\ req.json /\ req.doc.kind = "object" /\ req.fault # "stdin"
    /\ \A e \in json_object(req.doc.members) : Recognized(e.key) /\ e.val.str

ObjectKeys == {e.key : e \in json_object(req.doc.members)}

\* the value the object holds under key k
ValueOf(k) == (CHOOSE e \in json_object(req.doc.members) : e.key = k).val

\* the payload handed to set_content_types
Payload == res.log[CHOOSE i \in SetCalls : TRUE].map

\* C5 as stated: the payload has exactly one entry per key of the object, and
\* each key's ContentType maps to the bytes of that key's value.
C5_OneEntryPerKey ==
    GoodObject =>
        /\ Cardinality(SetCalls) = 1
        /\ Cardinality(Payload) = Cardinality(ObjectKeys)
        /\ \A k \in ObjectKeys :
              [ct |-> string_to_ct(k), data |-> str_bytes(ValueOf(k).s)] \in Payload

\* C5 amended: the payload has exactly one entry per ContentType that the keys
\* of the object parse to; the entry of a type holds the bytes of the value of
\* a key that parses to it, and of that key's value when no other key does.
C5_OneEntryPerType ==
    GoodObject =>
        /\ Cardinality(SetCalls) = 1
        /\ {e.ct : e \in Payload} = {string_to_ct(k) : k \in ObjectKeys}
        /\ Cardinality(Payload) = Cardinality({string_to_ct(k) : k \in ObjectKeys})
        /\ \A e \in Payload :
              \E k \in ObjectKeys :
                 string_to_ct(k) = e.ct /\ e.data = str_bytes(ValueOf(k).s)

\* C5 witness: {"text": .., "TEXT": ..} copied as a payload of one entry
C5_Witness_CaseVariants ==
    /\ GoodObject /\ ObjectKeys = {S_text, T_TEXT}
    /\ Cardinality(SetCalls) = 1 /\ Cardinality(Payload) = 1
    /\ res.kind = "Ok"

\* what the entry e of a JSON object fails with, "Ok" if it resolves
Offence(e) ==
    IF ~Recognized(e.key) THEN "ArgumentError"
    ELSE IF ~e.val.str THEN "JsonError"
    ELSE "Ok"

Offences == {Offence(e) : e \in json_object(req.doc.members)} \ {"Ok"}

C6_Post ==
    (req.cmd = "copy" /\ req.json) =>
        /\ req.doc.kind # "object" => res.kind = "JsonError"
        /\ (req.doc.kind = "object" /\ req.fault # "stdin" /\ Offences # {}) =>
              res.kind \in Offences
        /\ (req.doc.kind = "object" /\ req.fault # "stdin" /\ Offences = {}) =>
              /\ res.kind \in {"Ok", "InternalError"}
              /\ Cardinality(SetCalls) = 1
              /\ res.log[Len(res.log)].op = "set_content_types"
        /\ res.kind \in {"JsonError", "ArgumentError"} =>
              SetCalls = {} /\ res.exit = 2
        /\ Cardinality(SetCalls) <= 1

\* C6: copy --json is all-or-nothing on input errors.  A top level that is no
\* object fails with JsonError; an object with an entry that does not resolve
\* fails with the error of such an entry (ArgumentError for an unrecognized
\* key, JsonError for a value that is no string); in each of these cases
\* set_content_types is not called and the clipboard is as it was.
\* set_content_types is called once, as the last step, when every entry
\* resolved.
C6_AllOrNothing ==
    [][(Idle /\ req'.cmd = "copy" /\ req'.json) =>
          /\ C6_Post'
          /\ res'.kind \in {"JsonError", "ArgumentError"} => board' = board]_vars

\* C6 witness: an object with a valid entry and an entry of a non-string
\* value failed with JsonError, nothing written over a non-empty clipboard
C6_Witness_MixedObject ==
    /\ req.cmd = "copy" /\ req.json /\ req.doc.kind = "object"
    /\ \E e \in json_object(req.doc.members) : Offence(e) = "Ok"
    /\ Offences = {"JsonError"}
    /\ res.kind = "JsonError" /\ SetCalls = {} /\ board # <<>>

\* C7: every outcome of paste, list-types and copy is success with exit code
\* 0, DataNotFound or InternalError with exit code 1, or ArgumentError,
\* JsonError or Utf8Error with exit code 2.
C7_ExitCodes ==
    req.cmd \in {"paste", "list-types", "copy"} =>
        \/ res.kind = "Ok" /\ res.exit = 0
        \/ res.kind \in {"DataNotFound", "InternalError"} /\ res.exit = 1
        \/ res.kind \in {"ArgumentError", "JsonError", "Utf8Error"} /\ res.exit = 2

Natives == [i \in 1..Len(board) |-> board[i].native]

\* C8: list without --system prints, standard output accepting the lines, the
\* strictly increasing sequence of the strings render(normalize(t)) of the
\* native types t on the clipboard: each once, nothing else.  When the types
\* cannot be enumerated it fails with DataNotFound and prints nothing.
C8_ListSortedDedup ==
    (req.cmd = "list-types" /\ ~req.system) =>
        /\ req.fault = "clipboard" =>
              res.kind = "DataNotFound" /\ res.exit = 1 /\ res.lines = <<>>
        /\ req.fault = "none" =>
              /\ res.kind = "Ok"
              /\ \A i \in 1..(Len(res.lines) - 1) : StrLess(res.lines[i], res.lines[i + 1])
              /\ {res.lines[i] : i \in 1..Len(res.lines)}
                    = {show_ct(normalize_content_type(Natives[i])) : i \in 1..Len(Natives)}

\* C8 witness: two plain-text flavours listed as the one line "text"
C8_Witness_TwoTextFlavours ==
    /\ req.cmd = "list-types" /\ ~req.system
    /\ Natives = <<N_utf8, N_str>>
    /\ res.lines = <<S_text>>

\* C9: paste dispatch and error order.  Without a type: one get_text, and
\* DataNotFound when there is no text, else the text is written whatever the
\* binary policy.  With --type: ArgumentError and no clipboard read when the
\* name is not recognized, else one read of the named type.  With
\* --system-type v: one read of Custom(v).  DataNotFound when the type read is
\* absent.
C9_PasteDispatch ==
    req.cmd = "paste" =>
        /\ (~req.typeName.some /\ ~req.systemType.some) =>
              /\ res.log = <<Call("get_text", NoneCt, {})>>
              /\ res.kind # "Utf8Error"
              /\ ~get_text(board, req.fault).ok => res.kind = "DataNotFound"
              /\ (get_text(board, req.fault).ok /\ req.fault # "stdout") =>
                    res.kind = "Ok" /\ res.out = get_text(board, req.fault).val
        /\ (req.typeName.some /\ ~Recognized(req.typeName.v)) =>
              res.kind = "ArgumentError" /\ res.log = <<>>
        /\ (req.typeName.some /\ Recognized(req.typeName.v)) =>
              res.log = <<Call("get_content_for_type", string_to_ct(req.typeName.v), {})>>
        /\ req.systemType.some =>
              res.log = <<Call("get_content_for_type", Custom(req.systemType.v), {})>>
        /\ (ExplicitRead /\ ~Held.ok) => res.kind = "DataNotFound"
        /\ Cardinality(ClipboardReads) <= 1

\* C9 witness: --system-type text read Custom("text"), absent from a clipboard
\* that holds plain text
C9_Witness_SystemTypeText ==
    /\ req.cmd = "paste" /\ req.systemType = Arg(S_text)
    /\ get_text(board, "none").ok
    /\ res.log = <<Call("get_content_for_type", Custom(S_text), {})>>
    /\ res.kind = "DataNotFound"

\* the ContentType copy writes in single-type mode
Target ==
    IF req.typeName.some THEN string_to_ct(req.typeName.v)
    ELSE IF req.systemType.some THEN Custom(req.systemType.v)
    ELSE Text

\* C10: copy in single-type mode.  An unrecognized --type fails with
\* ArgumentError before standard input is read or the clipboard written.
\* Otherwise the target is the type of --type, else Custom of --system-type,
\* else Text, and set_content_types is called once with the payload of the one
\* entry target -> the bytes of standard input; a rejected write fails with
\* InternalError.
C10_CopySingle ==
    (req.cmd = "copy" /\ ~req.json) =>
        IF req.typeName.some /\ ~Recognized(req.typeName.v)
        THEN res.kind = "ArgumentError" /\ res.log = <<>>
        ELSE IF req.fault = "stdin"
        THEN res.kind = "InternalError" /\ SetCalls = {}
        ELSE /\ res.log = <<Call("read_stdin", NoneCt, {}),
                           Call("set_content_types", NoneCt,
                                {[ct |-> Target, data |-> req.stdin]})>>
             /\ res.kind = IF req.fault = "clipboard" THEN "InternalError" ELSE "Ok"
             /\ res.kind = "Ok" => board = FlavoursOf({[ct |-> Target, data |-> req.stdin]})

\* C10 witness: no flags and "abc" on standard input gave {Text: "abc"}
C10_Witness_DefaultText ==
    /\ req.cmd = "copy" /\ ~req.json
    /\ ~req.typeName.some /\ ~req.systemType.some
    /\ req.stdin = <<97, 98, 99>>
    /\ res.kind = "Ok"
    /\ Payload = {[ct |-> Text, data |-> <<97, 98, 99>>]}

====
